---- MODULE Spec2Model ----
(***************************************************************************)
(* A model of clone/__init__.py: download_file, clone_from_url, clone,     *)
(* iter_default_users, search and main, with the file system under the     *)
(* parent directory, the transport and the OS identity sources as inputs.  *)
(*                                                                         *)
(* Strings that the code inspects character by character (site             *)
(* identifiers, user names) are sequences of one-character strings.  Path  *)
(* names are sequences of components relative to the parent directory.     *)
(***************************************************************************)
EXTENDS Integers, Sequences, FiniteSets, TLC

VARIABLES
    siteArg,     \* the site identifier handed to the resolution under test
    siteRes,     \* what clone's and search's resolution made of it
    fs,          \* the tree under the parent directory: path -> node
    pre,         \* fs as it was when the last call started
    call,        \* the last call of download_file / clone_from_url / clone
    res,         \* its outcome
    env,         \* the OS identity sources iter_default_users reads
    usersOut,    \* the outcome of list(iter_default_users())
    net,         \* which candidates the probe finds, and which site is down
    gen,         \* the generator object search() returned
    argv,        \* sys.argv[1:]
    mainRes      \* the outcome of main()

vars == <<siteArg, siteRes, fs, pre, call, res, env, usersOut, net, gen, argv, mainRes>>

----------------------------------------------------------------------------
(* Bounds of the model.                                                    *)

MaxSuffixLen == 4
MaxEntries == 2
MaxSites == 2
MaxArgs == 4
----------------------------------------------------------------------------
(* Strings.                                                                *)

UpperChars == <<"A","B","C","D","E","F","G","H","I","J","K","L","M",
                "N","O","P","Q","R","S","T","U","V","W","X","Y","Z">>
LowerChars == <<"a","b","c","d","e","f","g","h","i","j","k","l","m",
                "n","o","p","q","r","s","t","u","v","w","x","y","z">>

\* str.lower() and str.upper() on the letters
LowerOf == [c \in {UpperChars[i] : i \in 1..26} |->
               LowerChars[CHOOSE i \in 1..26 : UpperChars[i] = c]]
UpperOf == [c \in {LowerChars[i] : i \in 1..26} |->
               UpperChars[CHOOSE i \in 1..26 : LowerChars[i] = c]]

\* str.lower() on one character
LowerChar(c) == IF c \in DOMAIN LowerOf THEN LowerOf[c] ELSE c

\* str.upper() on one character (used to build mixed-case inputs)
UpperChar(c) == IF c \in DOMAIN UpperOf THEN UpperOf[c] ELSE c

\* str.lower()
Lower(s) == [i \in 1..Len(s) |-> LowerChar(s[i])]

\* str.rfind(c), as a 1-based index; 0 when c does not occur
RFind(s, c) ==
    IF \E i \in 1..Len(s) : s[i] = c
    THEN CHOOSE i \in 1..Len(s) : s[i] = c /\ \A j \in (i+1)..Len(s) : s[j] # c
    ELSE 0

\* os.path.splitext(p)[0] (posixpath: sep "/", extsep "."): the extension
\* starts at the last dot when that dot follows the last separator and some
\* character other than a dot stands between them.
SplitextBase(p) ==
    LET sepIndex == RFind(p, "/")
        dotIndex == RFind(p, ".")
    IN  IF /\ dotIndex > sepIndex
           /\ \E i \in (sepIndex+1)..(dotIndex-1) : p[i] # "."
        THEN SubSeq(p, 1, dotIndex - 1)
        ELSE p

----------------------------------------------------------------------------
(* The site template table and site resolution.                            *)

Bitbucket == <<"b","i","t","b","u","c","k","e","t">>
Github    == <<"g","i","t","h","u","b">>
Gitlab    == <<"g","i","t","l","a","b">>
BitbucketX == <<"B","i","t","b","u","c","k","e","t",".","x">>

\* the keys of URL_TEMPLATES, in the table's order
TemplateKeys == <<Bitbucket, Github>>

InTemplates(s) == \E i \in 1..Len(TemplateKeys) : TemplateKeys[i] = s

\* URL_TEMPLATES[site].format(user=user, repo=repo), as the URL's segments
\* (the text split at "/")
FormatUrl(site, user, repo) ==
    IF site = Bitbucket
    THEN <<"https:", "", "bitbucket.org", user, repo, "get", "master.zip">>
    ELSE <<"https:", "", "github.com", user, repo, "archive", "master.zip">>

\* os.path.basename(url): the last segment
Basename(url) == url[Len(url)]

NoSite == <<>>

\* clone's resolution, with a suffix stripped at the first dot instead of
\* by os.path.splitext
CloneResolveSiteGreedy(site) ==
    LET s == Lower(site)
        firstDot == IF \E i \in 1..Len(s) : s[i] = "."
                    THEN CHOOSE i \in 1..Len(s) :
                            s[i] = "." /\ \A j \in 1..(i-1) : s[j] # "."
                    ELSE Len(s) + 1
        base == SubSeq(s, 1, firstDot - 1)
    IN  IF InTemplates(s) THEN [ok |-> TRUE, key |-> s]
        ELSE IF InTemplates(base) THEN [ok |-> TRUE, key |-> base]
        ELSE [ok |-> FALSE, key |-> NoSite]

\* clone: site = site.lower(); retry with os.path.splitext(site)[0];
\* ok = FALSE stands for raise KeyError(site)
CloneResolveSite(site) ==
    LET s == Lower(site)
        base == SplitextBase(s)
    IN  IF InTemplates(s) THEN [ok |-> TRUE, key |-> s]
        ELSE IF InTemplates(base) THEN [ok |-> TRUE, key |-> base]
        ELSE [ok |-> FALSE, key |-> NoSite]

\* search: the same steps, in the body of the loop over sites
SearchResolveSite(site) ==
    LET s == Lower(site)
        base == SplitextBase(s)
    IN  IF InTemplates(s) THEN [ok |-> TRUE, key |-> s]
        ELSE IF InTemplates(base) THEN [ok |-> TRUE, key |-> base]
        ELSE [ok |-> FALSE, key |-> NoSite]

----------------------------------------------------------------------------
(* Site identifiers to resolve: mixed-case spellings of a key, and an       *)
(* unknown name, followed by every string of at most MaxSuffixLen           *)
(* characters over ".", "x" and "/".                                        *)

SuffixChars == {".", "x", "/"}

RECURSIVE SeqsUpTo(_, _)
SeqsUpTo(S, n) ==
    IF n = 0 THEN {<<>>}
    ELSE LET shorter == SeqsUpTo(S, n - 1)
         IN  shorter \cup {Append(q, c) : q \in shorter, c \in S}

Suffixes == SeqsUpTo(SuffixChars, MaxSuffixLen)

\* the spellings of k with at most two capitals, or all capitals
Spellings(k) ==
    { [i \in 1..Len(k) |-> IF i \in up THEN UpperChar(k[i]) ELSE k[i]] :
        up \in { u \in SUBSET (1..Len(k)) :
                    Cardinality(u) <= 2 \/ u = 1..Len(k) } }

SiteIds ==
    { b \o suf : b \in Spellings(Github) \cup Spellings(Bitbucket) \cup {Gitlab},
                 suf \in Suffixes }

NoRes == [cloneDone |-> FALSE, clone |-> [ok |-> FALSE, key |-> NoSite],
          searchDone |-> FALSE, search |-> [ok |-> FALSE, key |-> NoSite]]

----------------------------------------------------------------------------
(* The file system under the parent directory.  A path is the sequence of  *)
(* its components below the parent; <<>> is the parent itself (which is    *)
(* also the working directory when no parent is given).  A node is "none"  *)
(* (nothing there), "dir", or a regular file named by what it holds: "old" *)
(* (a file that was there before any call), "zip" (a downloaded archive),  *)
(* "junk" (a downloaded body that is no zip file), "partial" (a download   *)
(* cut short) or "ent" (the data of the archive entry of that name).       *)

ZipName == "master.zip"
RepoName == "foo"
RootName == "foo-master"
TopFileName == "b"
ChildName == "a"

Paths ==
    { <<ZipName>>, <<RepoName>>, <<RootName>>, <<TopFileName>>,
      <<RepoName, ChildName>>, <<RootName, ChildName>>, <<ZipName, ZipName>> }

FileNodes == {"old", "zip", "junk", "partial", "ent"}

NodeAt(f, p) == IF p \in DOMAIN f THEN f[p] ELSE "none"

\* os.path.isdir / os.path.isfile
IsDir(f, p) == p = <<>> \/ NodeAt(f, p) = "dir"
IsFile(f, p) == NodeAt(f, p) \in FileNodes

\* the paths directly or indirectly below directory p
Below(p) == { q \in Paths : Len(q) > Len(p) /\ SubSeq(q, 1, Len(p)) = p }

\* a tree is well formed when whatever exists lies in a directory
TreeOk(f) == \A q \in Paths : f[q] # "none" => IsDir(f, SubSeq(q, 1, Len(q) - 1))

\* the trees a call may find: any mix of old files and directories
InitialTrees ==
    { f \in [Paths -> {"none", "dir", "old"}] :
        /\ TreeOk(f)
        /\ f[<<TopFileName>>] # "dir"
        /\ \A q \in Paths : Len(q) = 2 => f[q] # "dir" }

EmptyTree == [q \in Paths |-> "none"]

\* os.remove(p)
Remove(f, p) == [f EXCEPT ![p] = "none"]

----------------------------------------------------------------------------
(* Archives.  An entry name is held by its parts: whether it starts with a *)
(* "/", its components, and whether it ends with a "/" (a directory        *)
(* entry).  "foo-master/a" is [abs |-> FALSE, path |-> <<"foo-master",     *)
(* "a">>, isdir |-> FALSE].                                                *)

Entry(abs, path, isdir) == [abs |-> abs, path |-> path, isdir |-> isdir]

RootDir   == Entry(FALSE, <<RootName>>, TRUE)              \* "foo-master/"
RootFile  == Entry(FALSE, <<RootName, ChildName>>, FALSE)  \* "foo-master/a"
RepoDir   == Entry(FALSE, <<RepoName>>, TRUE)              \* "foo/"
TopFile   == Entry(FALSE, <<TopFileName>>, FALSE)          \* "b"
AbsFile   == Entry(TRUE, <<TopFileName>>, FALSE)           \* "/b"

Entries == {RootDir, RootFile, RepoDir, TopFile, AbsFile}

Archives == SeqsUpTo(Entries, MaxEntries)

\* name.startswith('/'), name.count('/'), name.endswith('/')
StartsWithSlash(e) == e.abs
SlashCount(e) ==
    (IF e.abs THEN 1 ELSE 0) + (Len(e.path) - 1) + (IF e.isdir THEN 1 ELSE 0)
EndsWithSlash(e) == e.isdir

\* the loop over repo.namelist() from entry i on: the first top-level
\* directory entry ends it; an absolute name met before that fails the
\* assertion, and so does reaching the end without a root
RECURSIVE FindRoot(_, _)
FindRoot(names, i) ==
    IF i > Len(names) THEN [exc |-> "AssertionError", root |-> <<>>]
    ELSE IF StartsWithSlash(names[i]) THEN [exc |-> "AssertionError", root |-> <<>>]
    ELSE IF SlashCount(names[i]) = 1 /\ EndsWithSlash(names[i])
         THEN [exc |-> "", root |-> names[i].path]
    ELSE FindRoot(names, i + 1)

\* ZipFile._extract_member: the leading "/" is dropped, missing upper
\* directories are made, a directory entry is made unless it is there, a file
\* entry is opened for writing (replacing a file that is there)
ExtractMember(f, e) ==
    LET target == e.path
        upper == SubSeq(target, 1, Len(target) - 1)
        f1 == IF upper # <<>> /\ NodeAt(f, upper) = "none"
              THEN [f EXCEPT ![upper] = "dir"] ELSE f
    IN  IF ~IsDir(f1, upper) THEN [fs |-> f1, ok |-> FALSE]
        ELSE IF e.isdir
             THEN IF IsDir(f1, target) THEN [fs |-> f1, ok |-> TRUE]
                  ELSE IF IsFile(f1, target) THEN [fs |-> f1, ok |-> FALSE]
                  ELSE [fs |-> [f1 EXCEPT ![target] = "dir"], ok |-> TRUE]
             ELSE IF IsDir(f1, target) THEN [fs |-> f1, ok |-> FALSE]
                  ELSE [fs |-> [f1 EXCEPT ![target] = "ent"], ok |-> TRUE]

\* repo.extractall(parent) from entry i on; failAt is the entry at which the
\* extraction meets an I/O error (0: none)
RECURSIVE ExtractAll(_, _, _, _)
ExtractAll(f, names, i, failAt) ==
    IF i > Len(names) THEN [fs |-> f, ok |-> TRUE]
    ELSE IF i = failAt THEN [fs |-> f, ok |-> FALSE]
    ELSE LET r == ExtractMember(f, names[i])
         IN  IF r.ok THEN ExtractAll(r.fs, names, i + 1, failAt) ELSE r

\* moving directory src, with what is below it, to dst
MoveDir(f, src, dst) ==
    [q \in Paths |->
        IF q = dst THEN "dir"
        ELSE IF q \in Below(dst)
             THEN NodeAt(f, src \o SubSeq(q, Len(dst) + 1, Len(q)))
        ELSE IF q = src \/ q \in Below(src) THEN "none"
        ELSE f[q]]

\* a rename that copies the directory and leaves the source in place
RenameLeavesSource(f, src, dst) ==
    IF src = dst THEN [fs |-> f, exc |-> ""]
    ELSE IF IsFile(f, dst) THEN [fs |-> f, exc |-> "NotADirectoryError"]
    ELSE IF IsDir(f, dst) /\ \E q \in Below(dst) : f[q] # "none"
         THEN [fs |-> f, exc |-> "OSError"]
    ELSE [fs |-> [q \in Paths |-> IF q = src \/ q \in Below(src)
                                  THEN f[q] ELSE MoveDir(f, src, dst)[q]],
          exc |-> ""]

\* os.rename(src, dst) of a directory (POSIX): onto itself nothing happens,
\* onto a file it fails, onto a directory it succeeds when that is empty
Rename(f, src, dst) ==
    IF src = dst THEN [fs |-> f, exc |-> ""]
    ELSE IF IsFile(f, dst) THEN [fs |-> f, exc |-> "NotADirectoryError"]
    ELSE IF IsDir(f, dst) /\ \E q \in Below(dst) : f[q] # "none"
         THEN [fs |-> f, exc |-> "OSError"]
    ELSE [fs |-> MoveDir(f, src, dst), exc |-> ""]

----------------------------------------------------------------------------
(* The transport.  "ok": the body, a zip archive, arrives whole; "junk":   *)
(* a body that is no zip file arrives whole; "neterr": the request fails   *)
(* before anything is written; "partial": it fails after part was written. *)

Transports == {"ok", "junk", "neterr", "partial"}

\* urllib.request.urlretrieve(url, path): the request is issued, then the
\* file is opened for writing and filled
UrlRetrieve(f, path, transport) ==
    IF transport = "neterr" THEN [fs |-> f, exc |-> "URLError"]
    ELSE IF IsDir(f, path) THEN [fs |-> f, exc |-> "IsADirectoryError"]
    ELSE IF transport = "partial"
         THEN [fs |-> [f EXCEPT ![path] = "partial"], exc |-> "URLError"]
    ELSE [fs |-> [f EXCEPT ![path] = IF transport = "ok" THEN "zip" ELSE "junk"],
          exc |-> ""]

Outcome(f, exc, ret, requests) ==
    [fs |-> f, exc |-> exc, ret |-> ret, requests |-> requests]

NoSave == [given |-> FALSE, path |-> <<>>]
SaveAt(p) == [given |-> TRUE, path |-> p]

\* download_file without the test for a file at the destination
DownloadFileNoExistCheck(f, url, save, transport) ==
    LET p0 == IF ~save.given THEN <<Basename(url)>> ELSE save.path
        p1 == IF IsDir(f, p0) THEN Append(p0, Basename(url)) ELSE p0
        r == UrlRetrieve(f, p1, transport)
    IN  IF r.exc = "" THEN Outcome(r.fs, "", p1, 1)
        ELSE Outcome(IF IsFile(r.fs, p1) THEN Remove(r.fs, p1) ELSE r.fs,
                     r.exc, <<>>, 1)

\* download_file(source_url, save_path)
DownloadFileResult(f, url, save, transport) ==
    LET p0 == IF ~save.given THEN <<Basename(url)>> ELSE save.path
        p1 == IF IsDir(f, p0) THEN Append(p0, Basename(url)) ELSE p0
    IN  IF IsFile(f, p1) THEN Outcome(f, "FileExistsError", <<>>, 0)
        ELSE LET r == UrlRetrieve(f, p1, transport)
             IN  IF r.exc = "" THEN Outcome(r.fs, "", p1, 1)
                 ELSE Outcome(IF IsFile(r.fs, p1) THEN Remove(r.fs, p1) ELSE r.fs,
                              r.exc, <<>>, 1)

\* clone_from_url after repo.extractall(parent): x is what the extraction
\* left; the check that the root is now a directory, and the return
Extracted(x, root) ==
    IF ~x.ok THEN Outcome(x.fs, "OSError", <<>>, 1)
    ELSE IF ~IsDir(x.fs, root) THEN Outcome(x.fs, "NotADirectoryError", <<>>, 1)
    ELSE Outcome(x.fs, "", root, 1)

\* clone_from_url after the loop over the names: found is the loop's result;
\* the check that the root is not yet a directory, then the extraction
Scanned(f, found, names, failAt) ==
    IF found.exc # "" THEN Outcome(f, found.exc, <<>>, 1)
    ELSE IF IsDir(f, found.root) THEN Outcome(f, "IsADirectoryError", <<>>, 1)
    ELSE Extracted(ExtractAll(f, names, 1, failAt), found.root)

\* the body of clone_from_url's try block, on the archive at zip_path
Materialize(f, zip, names, failAt) ==
    IF f[zip] # "zip" THEN Outcome(f, "BadZipFile", <<>>, 1)
    ELSE Scanned(f, FindRoot(names, 1), names, failAt)

\* a finally clause that leaves the archive file where it is
FinallyKeep(m, zip) == m

\* clone_from_url's finally clause, after the try block ended as m
Finally(m, zip) ==
    IF IsFile(m.fs, zip) THEN [m EXCEPT !.fs = Remove(m.fs, zip)] ELSE m

\* clone_from_url after download_file ended as d: its exception leaves
\* clone_from_url (the try block is not entered), else the try block runs
Downloaded(d, names, failAt) ==
    IF d.exc # "" THEN d
    ELSE Finally(Materialize(d.fs, d.ret, names, failAt), d.ret)

\* clone_from_url(source_url, parent); parent is "none" (not given: the
\* working directory), "dir" (a directory) or "notdir"
CloneFromUrlResult(f, url, parent, transport, names, failAt) ==
    IF parent = "notdir" THEN Outcome(f, "NotADirectoryError", <<>>, 0)
    ELSE Downloaded(DownloadFileResult(f, url, SaveAt(<<>>), transport),
                    names, failAt)

\* clone after os.rename ended as n: the check that path is a directory, and
\* the return
Renamed(n, repo, requests) ==
    IF n.exc # "" THEN Outcome(n.fs, n.exc, <<>>, requests)
    ELSE IF ~IsDir(n.fs, <<repo>>)
         THEN Outcome(n.fs, "NotADirectoryError", <<>>, requests)
    ELSE Outcome(n.fs, "", <<repo>>, requests)

\* clone after clone_from_url ended as c: its exception leaves clone, else
\* the directory it returned is renamed to path
ClonedFromUrl(c, repo) ==
    IF c.exc # "" THEN c
    ELSE Renamed(Rename(c.fs, c.ret, <<repo>>), repo, c.requests)

\* clone after the site was resolved as r
SiteResolved(f, r, repo, user, parent, transport, names, failAt) ==
    IF ~r.ok THEN Outcome(f, "KeyError", <<>>, 0)
    ELSE ClonedFromUrl(CloneFromUrlResult(f, FormatUrl(r.key, user, repo),
                                          parent, transport, names, failAt),
                       repo)

\* clone(repo, user, site, parent)
CloneResult(f, repo, user, site, parent, transport, names, failAt) ==
    IF parent = "notdir" THEN Outcome(f, "NotADirectoryError", <<>>, 0)
    ELSE IF IsDir(f, <<repo>>) THEN Outcome(f, "IsADirectoryError", <<>>, 0)
    ELSE SiteResolved(f, CloneResolveSite(site), repo, user, parent,
                      transport, names, failAt)

----------------------------------------------------------------------------
(* Calls of download_file, clone_from_url and clone on the tree.           *)

Al == <<"a","l">>

NoCall ==
    [op |-> "none", save |-> NoSave, parent |-> "none", transport |-> "ok",
     archive |-> <<>>, failAt |-> 0, repo |-> RepoName, user |-> Al,
     site |-> Github]
NoOutcome == [exc |-> "", ret |-> <<>>, requests |-> 0]

Report(r) == [exc |-> r.exc, ret |-> r.ret, requests |-> r.requests]

ArchiveUrl == FormatUrl(Github, Al, RepoName)

SavePaths == {NoSave, SaveAt(<<>>), SaveAt(<<ZipName>>), SaveAt(<<TopFileName>>)}
ParentArgs == {"none", "dir", "notdir"}
CloneSites == {Github, BitbucketX, Gitlab}

\* An archive is served only by a transport that works, and a transport is
\* used only below a parent that is a directory: the other combinations are
\* the same calls.
Served(parent, t, names, failAt) ==
    /\ t # "ok" => names = <<>> /\ failAt = 0
    /\ parent = "notdir" => t = "neterr"

DownloadFile ==
    /\ call.op = "none"
    /\ \E save \in SavePaths, t \in Transports :
        LET r == DownloadFileResult(fs, ArchiveUrl, save, t)
        IN  /\ fs' = r.fs
            /\ pre' = fs
            /\ call' = [NoCall EXCEPT !.op = "download_file", !.save = save,
                                      !.transport = t]
            /\ res' = Report(r)
    /\ UNCHANGED <<siteArg, siteRes, env, usersOut, net, gen, argv, mainRes>>

CloneFromUrl ==
    /\ call.op = "none"
    /\ \E parent \in ParentArgs, t \in Transports, names \in Archives :
        \E failAt \in 0..Len(names) :
          /\ Served(parent, t, names, failAt)
          /\ LET r == CloneFromUrlResult(fs, ArchiveUrl, parent, t, names, failAt)
             IN  /\ fs' = r.fs
                 /\ pre' = fs
                 /\ call' = [NoCall EXCEPT !.op = "clone_from_url",
                                           !.parent = parent, !.transport = t,
                                           !.archive = names, !.failAt = failAt]
                 /\ res' = Report(r)
    /\ UNCHANGED <<siteArg, siteRes, env, usersOut, net, gen, argv, mainRes>>

Clone ==
    /\ call.op = "none"
    /\ \E site \in CloneSites, parent \in ParentArgs, t \in Transports,
          names \in Archives :
        \E failAt \in 0..Len(names) :
          /\ Served(parent, t, names, failAt)
          /\ LET r == CloneResult(fs, RepoName, Al, site, parent, t, names, failAt)
             IN  /\ fs' = r.fs
                 /\ pre' = fs
                 /\ call' = [NoCall EXCEPT !.op = "clone", !.site = site,
                                           !.parent = parent, !.transport = t,
                                           !.archive = names, !.failAt = failAt]
                 /\ res' = Report(r)
    /\ UNCHANGED <<siteArg, siteRes, env, usersOut, net, gen, argv, mainRes>>

\* The call has returned or raised and the caller goes on: to the next call
\* the files this one left are files that exist.
CallReturns ==
    /\ call.op # "none"
    /\ fs' = [q \in Paths |-> IF fs[q] \in FileNodes THEN "old" ELSE fs[q]]
    /\ pre' = fs'
    /\ call' = NoCall
    /\ res' = NoOutcome
    /\ UNCHANGED <<siteArg, siteRes, env, usersOut, net, gen, argv, mainRes>>

----------------------------------------------------------------------------
(* Values of the variables a specification does not use.                   *)

NoEnv == <<>>
NoUsers == <<>>
NoNet == <<>>
NoGen == <<>>
NoMain == <<>>

Init ==
    /\ fs \in InitialTrees
    /\ pre = fs
    /\ call = NoCall
    /\ res = NoOutcome
    /\ siteArg = NoSite
    /\ siteRes = NoRes
    /\ env = NoEnv
    /\ usersOut = NoUsers
    /\ net = NoNet
    /\ gen = NoGen
    /\ argv = <<>>
    /\ mainRes = NoMain

Next == DownloadFile \/ CloneFromUrl \/ Clone \/ CallReturns

Spec == Init /\ [][Next]_vars

----------------------------------------------------------------------------
(* Claims about download_file, clone_from_url and clone (under Spec).      *)

\* an archive with a top-level directory entry, no absolute name, and every
\* entry at or below that directory
WellFormed(names) ==
    \E i \in 1..Len(names) :
        /\ names[i].isdir /\ Len(names[i].path) = 1
        /\ \A j \in 1..Len(names) :
              ~names[j].abs /\ names[j].path[1] = names[i].path[1]

HasAbsolute(names) == \E i \in 1..Len(names) : names[i].abs

\* the call reached the archive: it fetched it whole into the parent
Fetched ==
    /\ call.op \in {"clone_from_url", "clone"}
    /\ call.transport = "ok"
    /\ res.requests = 1

\* C1: a clone that returns, of a well-formed archive, into a parent where
\* parent/repo did not exist, returns parent/repo, which is then a directory
\* holding exactly the files of the archive; neither the archive file nor the
\* directory named by the archive is left under the parent.
C1_CloneLeavesRepoDirectory ==
    (/\ call.op = "clone"
     /\ res.exc = ""
     /\ WellFormed(call.archive)
     /\ pre[<<call.repo>>] = "none")
    => LET root == call.archive[1].path[1]
           dest == <<call.repo>>
       IN  /\ res.ret = dest
           /\ fs[dest] = "dir"
           /\ \A q \in Below(dest) :
                 fs[q] = IF \E i \in 1..Len(call.archive) :
                               /\ ~call.archive[i].isdir
                               /\ call.archive[i].path = <<root>> \o Tail(q)
                         THEN "ent" ELSE "none"
           /\ ~IsFile(fs, <<ZipName>>)
           /\ root # call.repo
                 => \A q \in {<<root>>} \cup Below(<<root>>) : fs[q] = "none"

C1_Witness ==
    /\ call.op = "clone"
    /\ res.exc = ""
    /\ call.archive = <<RootDir, RootFile>>
    /\ pre[<<RepoName>>] = "none"
    /\ fs[<<RepoName, ChildName>>] = "ent"

\* C2: when clone_from_url or clone has ended, in any way, or download_file
\* has failed, every downloaded file under the parent (whole, cut short, or
\* not an archive) is one that was there before the call.
C2_NoOrphanArchive ==
    (\/ call.op \in {"clone_from_url", "clone"}
     \/ call.op = "download_file" /\ res.exc # "")
    => \A q \in Paths : fs[q] \in {"zip", "junk", "partial"} => pre[q] = fs[q]

C2_Witness ==
    /\ call.op = "clone_from_url"
    /\ Fetched
    /\ res.exc = "OSError"
    /\ call.failAt = 2
    /\ fs[<<ZipName>>] = "none"

\* C3: a call that fails leaves the tree as it found it, and a call that
\* succeeds changes nothing but the file or directory it returns.
C3_FailureLeavesTreeUnchanged ==
    call.op # "none"
    => /\ res.exc # "" => fs = pre
       /\ res.exc = ""
             => \A q \in Paths :
                   q # res.ret /\ q \notin Below(res.ret) => fs[q] = pre[q]

\* C4: clone_from_url, having fetched an archive with an absolute name in it,
\* fails the assertion and has extracted nothing.
C4_AbsolutePathRejected ==
    (/\ call.op = "clone_from_url"
     /\ Fetched
     /\ HasAbsolute(call.archive))
    => /\ res.exc = "AssertionError"
       /\ fs = pre

\* C5: download_file, finding a file at the destination it computes, raises
\* FileExistsError, issues no request and leaves the tree as it is.
C5_DownloadNeverOverwrites ==
    LET given == IF call.save.given THEN call.save.path ELSE <<>>
        dest == IF IsDir(pre, given) THEN Append(given, ZipName) ELSE given
    IN  (call.op = "download_file" /\ IsFile(pre, dest))
        => /\ res.exc = "FileExistsError"
           /\ res.requests = 0
           /\ fs = pre

C5_Witness ==
    /\ call.op = "download_file"
    /\ call.save = SaveAt(<<TopFileName>>)
    /\ pre[<<TopFileName>>] = "old"
    /\ res.exc = "FileExistsError"
    /\ fs[<<TopFileName>>] = "old"

----------------------------------------------------------------------------
(* Site resolution on its own: SpecSite draws an identifier and lets        *)
(* clone's and search's resolution steps act on it.                         *)

InitSite ==
    /\ siteArg \in SiteIds
    /\ siteRes = NoRes
    /\ fs = EmptyTree
    /\ pre = EmptyTree
    /\ call = NoCall
    /\ res = NoOutcome
    /\ env = NoEnv
    /\ usersOut = NoUsers
    /\ net = NoNet
    /\ gen = NoGen
    /\ argv = <<>>
    /\ mainRes = NoMain

CloneResolves ==
    /\ ~siteRes.cloneDone
    /\ siteRes' = [siteRes EXCEPT !.cloneDone = TRUE,
                                  !.clone = CloneResolveSite(siteArg)]
    /\ UNCHANGED <<siteArg, fs, pre, call, res, env, usersOut, net, gen, argv, mainRes>>

SearchResolves ==
    /\ ~siteRes.searchDone
    /\ siteRes' = [siteRes EXCEPT !.searchDone = TRUE,
                                  !.search = SearchResolveSite(siteArg)]
    /\ UNCHANGED <<siteArg, fs, pre, call, res, env, usersOut, net, gen, argv, mainRes>>

NextSite == CloneResolves \/ SearchResolves

SpecSite == InitSite /\ [][NextSite]_vars

\* s starts with key k, in any letter case
Spells(s, k) == Len(s) >= Len(k) /\ Lower(SubSeq(s, 1, Len(k))) = k

\* what follows the key in s
SuffixOf(s, k) == SubSeq(s, Len(k) + 1, Len(s))

\* a dotted suffix: one or more groups of a dot and a non-empty label
\* (".x", ".x.x")
Dotted(suf) ==
    /\ suf # <<>>
    /\ suf[1] = "."
    /\ suf[Len(suf)] # "."
    /\ \A i \in 1..Len(suf) : suf[i] # "/"
    /\ \A i \in 1..(Len(suf) - 1) : ~(suf[i] = "." /\ suf[i+1] = ".")

\* a dot followed by characters none of which is a dot or a "/"
SingleExtension(suf) ==
    /\ suf # <<>>
    /\ suf[1] = "."
    /\ \A i \in 2..Len(suf) : Lower(suf)[i] \notin {".", "/"}

KeySet == {TemplateKeys[i] : i \in 1..Len(TemplateKeys)}

Resolved(k) == [ok |-> TRUE, key |-> k]
Unknown == [ok |-> FALSE, key |-> NoSite]

\* C6 as stated: an identifier that is a key in any letter case, alone or
\* followed by a dotted suffix, resolves to that key in clone and in search;
\* every other identifier is unknown to both, and the two always agree.
C6_DottedSuffixResolves ==
    (siteRes.cloneDone /\ siteRes.searchDone)
    => /\ \A k \in KeySet :
             (/\ Spells(siteArg, k)
              /\ LET suf == SuffixOf(siteArg, k) IN suf = <<>> \/ Dotted(suf))
             => siteRes.clone = Resolved(k) /\ siteRes.search = Resolved(k)
       /\ (~\E k \in KeySet :
               \/ Lower(siteArg) = k
               \/ SplitextBase(Lower(siteArg)) = k)
             => siteRes.clone = Unknown /\ siteRes.search = Unknown
       /\ siteRes.clone = siteRes.search

\* C6 amended: the suffix is a single extension, a dot followed by characters
\* none of which is a dot or a "/".  Such an identifier resolves to its key,
\* every other identifier is unknown, and clone and search agree.
C6_SingleExtensionResolves ==
    LET matches(k) ==
            /\ Spells(siteArg, k)
            /\ LET suf == SuffixOf(siteArg, k)
               IN  suf = <<>> \/ SingleExtension(suf)
    IN  /\ siteRes.cloneDone
             => /\ \A k \in KeySet : matches(k) => siteRes.clone = Resolved(k)
                /\ (~\E k \in KeySet : matches(k)) => siteRes.clone = Unknown
        /\ siteRes.searchDone
             => /\ \A k \in KeySet : matches(k) => siteRes.search = Resolved(k)
                /\ (~\E k \in KeySet : matches(k)) => siteRes.search = Unknown
        /\ (siteRes.cloneDone /\ siteRes.searchDone)
             => siteRes.clone = siteRes.search

C6_Witness ==
    /\ siteArg = <<"G","i","t","H","u","b",".","x">>
    /\ siteRes.cloneDone
    /\ siteRes.searchDone
    /\ siteRes.clone = Resolved(Github)
    /\ siteRes.search = Resolved(Github)

----------------------------------------------------------------------------
(* The identity sources and iter_default_users.                            *)

AlCaps == <<"A","l">>
Bo == <<"b","o">>
Tilde == <<"~">>
Unset == <<"(unset)">>
Fails == <<"(fails)">>

UserNames == {Al, AlCaps, Bo}

\* An environment: the variables getpass.getuser and the code read (a name
\* or Unset), the password database's name for the uid and the login name
\* (a name, or Fails when the lookup raises), and the last component of the
\* expanded "~" (a name, or "~" itself when it cannot be expanded).
Envs ==
    [LOGNAME : UserNames \cup {Unset}, USER : UserNames \cup {Unset},
     LNAME : UserNames \cup {Unset}, USERNAME : UserNames \cup {Unset},
     pw : UserNames \cup {Fails}, home : UserNames \cup {Tilde},
     login : UserNames \cup {Fails}]

\* getpass.getuser(): the first of LOGNAME, USER, LNAME, USERNAME that is
\* set, else the password database's entry for the uid; Fails when that
\* lookup raises
GetUser(e) ==
    IF e.LOGNAME # Unset THEN e.LOGNAME
    ELSE IF e.USER # Unset THEN e.USER
    ELSE IF e.LNAME # Unset THEN e.LNAME
    ELSE IF e.USERNAME # Unset THEN e.USERNAME
    ELSE e.pw

\* the loop over candidates from position i on: a candidate is yielded unless
\* its lower-case form is covered
RECURSIVE YieldUncovered(_, _, _)
YieldUncovered(candidates, i, covered) ==
    IF i > Len(candidates) THEN <<>>
    ELSE IF Lower(candidates[i]) \notin covered
         THEN <<candidates[i]>>
              \o YieldUncovered(candidates, i + 1,
                                covered \cup {Lower(candidates[i])})
    ELSE YieldUncovered(candidates, i + 1, covered)

\* list(iter_default_users()): the candidates are getpass.getuser(), the home
\* directory's name, USER and USERNAME when set, and os.getlogin() unless it
\* raises; an exception of getpass.getuser() leaves the generator
IterDefaultUsers(e) ==
    IF GetUser(e) = Fails
    THEN [done |-> TRUE, exc |-> "KeyError", users |-> <<>>]
    ELSE LET candidates ==
                 <<GetUser(e), e.home>>
                 \o (IF e.USER # Unset THEN <<e.USER>> ELSE <<>>)
                 \o (IF e.USERNAME # Unset THEN <<e.USERNAME>> ELSE <<>>)
                 \o (IF e.login # Fails THEN <<e.login>> ELSE <<>>)
         IN  [done |-> TRUE, exc |-> "",
              users |-> YieldUncovered(candidates, 1, {})]

InitUsers ==
    /\ env \in Envs
    /\ usersOut = [done |-> FALSE, exc |-> "", users |-> <<>>]
    /\ siteArg = NoSite
    /\ siteRes = NoRes
    /\ fs = EmptyTree
    /\ pre = EmptyTree
    /\ call = NoCall
    /\ res = NoOutcome
    /\ net = NoNet
    /\ gen = NoGen
    /\ argv = <<>>
    /\ mainRes = NoMain

ListDefaultUsers ==
    /\ ~usersOut.done
    /\ usersOut' = IterDefaultUsers(env)
    /\ UNCHANGED <<siteArg, siteRes, fs, pre, call, res, env, net, gen, argv, mainRes>>

NextUsers == ListDefaultUsers

SpecUsers == InitUsers /\ [][NextUsers]_vars

\* C9: iter_default_users never raises, whatever sources are missing or fail,
\* and no two of the names it yields are equal when compared without case.
C9_DefaultUsersNeverRaise ==
    usersOut.done
    => /\ usersOut.exc = ""
       /\ \A i, j \in 1..Len(usersOut.users) :
             i # j => Lower(usersOut.users[i]) # Lower(usersOut.users[j])


----------------------------------------------------------------------------
(* The existence probe and search.                                         *)

Users == {Al, Bo}
Repos == {RepoName, "bar"}

\* What the probe finds: the (user, repo) pairs that exist on the sites, and
\* a site that cannot be reached (NoSite: every site can).
Worlds(users, repos) ==
    [exists : SUBSET (users \X repos), down : {NoSite, Bitbucket, Github}]

\* urllib.request.urlopen(url) for the url of candidate (key, user, repo)
Probe(n, key, user, repo) ==
    IF key = n.down THEN "URLError"
    ELSE IF <<user, repo>> \in n.exists THEN "ok"
    ELSE "HTTPError"

\* the except clause of the probe, catching HTTPError only
SwallowedHttpOnly(outcome) == outcome = "HTTPError"

\* the except clause of the probe: (HTTPError, URLError)
Swallowed(outcome) == outcome \in {"HTTPError", "URLError"}

\* An argument of search: a list, a bare string, or None.
ListArg(l) == [kind |-> "list", val |-> l]
StrArg(x) == [kind |-> "str", val |-> <<x>>]
NoneArg == [kind |-> "none", val |-> <<>>]

\* the generator object as search(repos, users, sites) returns it: no line
\* of the body has run
NewGen(repos, users, sites) ==
    [status |-> "created", exc |-> "",
     repos |-> repos, users |-> users, sites |-> sites,
     nrepos |-> <<>>, nusers |-> <<>>, nsites |-> <<>>,
     si |-> 0, key |-> NoSite, ui |-> 0, ri |-> 0,
     probes |-> <<>>, yielded |-> <<>>]

RECURSIVE RunSites(_, _, _)
RECURSIVE RunUsers(_, _, _, _, _)
RECURSIVE RunRepos(_, _, _, _, _, _)

\* the loop over sites with an unresolvable site passed over
RunSitesSkipUnknown(g, n, si) ==
    IF si > Len(g.nsites) THEN [g EXCEPT !.status = "exhausted"]
    ELSE LET r == SearchResolveSite(g.nsites[si])
         IN  IF ~r.ok THEN RunSites(g, n, si + 1)
             ELSE RunUsers(g, n, si, r.key, 1)

\* for site in sites, from site si on: resolve the site, then loop over users
RunSites(g, n, si) ==
    IF si > Len(g.nsites) THEN [g EXCEPT !.status = "exhausted"]
    ELSE LET r == SearchResolveSite(g.nsites[si])
         IN  IF ~r.ok THEN [g EXCEPT !.status = "raised", !.exc = "KeyError"]
             ELSE RunUsers(g, n, si, r.key, 1)

\* for user in users, from user ui on
RunUsers(g, n, si, key, ui) ==
    IF ui > Len(g.nusers) THEN RunSites(g, n, si + 1)
    ELSE RunRepos(g, n, si, key, ui, 1)

\* for repo in repos, from repo ri on: probe the candidate's url; yield it
\* (the generator is suspended there), go on to the next, or let an exception
\* that is not caught leave the generator
RunRepos(g, n, si, key, ui, ri) ==
    IF ri > Len(g.nrepos) THEN RunUsers(g, n, si, key, ui + 1)
    ELSE LET user == g.nusers[ui]
             repo == g.nrepos[ri]
             outcome == Probe(n, key, user, repo)
             g1 == [g EXCEPT !.probes = Append(@, <<key, user, repo>>)]
         IN  IF outcome = "ok"
             THEN [g1 EXCEPT !.status = "suspended", !.si = si, !.key = key,
                             !.ui = ui, !.ri = ri,
                             !.yielded = Append(@, <<repo, user, key>>)]
             ELSE IF Swallowed(outcome)
                  THEN RunRepos(g1, n, si, key, ui, ri + 1)
             ELSE [g1 EXCEPT !.status = "raised", !.exc = outcome]

\* next(g): a created generator normalises its arguments and enters the
\* loops; a suspended one goes on after the yield; a finished one stays so
SearchNextResult(g, n, e) ==
    IF g.status = "created"
    THEN LET defaults == IF g.users.kind = "none"
                         THEN IterDefaultUsers(e)
                         ELSE [done |-> TRUE, exc |-> "", users |-> g.users.val]
         IN  IF defaults.exc # ""
             THEN [g EXCEPT !.status = "raised", !.exc = defaults.exc]
             ELSE RunSites([g EXCEPT !.nrepos = g.repos.val,
                                     !.nusers = defaults.users,
                                     !.nsites = IF g.sites.kind = "none"
                                                THEN TemplateKeys
                                                ELSE g.sites.val],
                           n, 1)
    ELSE IF g.status = "suspended"
         THEN RunRepos(g, n, g.si, g.key, g.ui, g.ri + 1)
    ELSE g

\* the lists over S that name no element twice
Lists(S) ==
    { l \in SeqsUpTo(S, Cardinality(S)) :
        \A i, j \in 1..Len(l) : i # j => l[i] # l[j] }

SearchSites == {Github, BitbucketX, Gitlab}

\* the environment of the runs that do not vary it
QuietEnv ==
    [LOGNAME |-> Unset, USER |-> Bo, LNAME |-> Unset, USERNAME |-> Unset,
     pw |-> Bo, home |-> AlCaps, login |-> Fails]

InitSearch ==
    /\ net \in Worlds(Users, Repos)
    /\ \E repos \in Lists(Repos), users \in Lists(Users),
          sites \in {ListArg(l) : l \in SeqsUpTo(SearchSites, MaxSites)}
                    \cup {NoneArg} :
          gen = NewGen(ListArg(repos), ListArg(users), sites)
    /\ env = QuietEnv
    /\ usersOut = NoUsers
    /\ siteArg = NoSite
    /\ siteRes = NoRes
    /\ fs = EmptyTree
    /\ pre = EmptyTree
    /\ call = NoCall
    /\ res = NoOutcome
    /\ argv = <<>>
    /\ mainRes = NoMain

SearchNext ==
    /\ gen.status \in {"created", "suspended"}
    /\ gen' = SearchNextResult(gen, net, env)
    /\ UNCHANGED <<siteArg, siteRes, fs, pre, call, res, env, usersOut, net, argv, mainRes>>

NextSearch == SearchNext

SpecSearch == InitSearch /\ [][NextSearch]_vars

----------------------------------------------------------------------------
(* Claims about search (under SpecSearch).                                 *)

\* the key an identifier stands for: the key it spells, alone or with a
\* single extension; NoSite when there is none
ExpectedKey(site) ==
    LET fits(k) == /\ Spells(site, k)
                   /\ LET suf == SuffixOf(site, k)
                      IN  suf = <<>> \/ SingleExtension(suf)
    IN  IF \E k \in KeySet : fits(k) THEN CHOOSE k \in KeySet : fits(k)
        ELSE NoSite

\* the lists the generator was given
GivenSites == IF gen.sites.kind = "none" THEN TemplateKeys ELSE gen.sites.val
GivenUsers == gen.users.val
GivenRepos == gen.repos.val

\* ExpectedKey on the identifiers the searches are given
KeyOf == [site \in SearchSites \cup KeySet |-> ExpectedKey(site)]

\* the keys the given sites stand for
GivenKeys == [s \in 1..Len(GivenSites) |-> KeyOf[GivenSites[s]]]

\* the combinations of keys, users and repos in site-major, then user, then
\* repo order
Combos(keys, users, repos) ==
    LET U == Len(users)
        R == Len(repos)
    IN  [i \in 1..(Len(keys) * U * R) |->
            <<keys[((i - 1) \div (U * R)) + 1],
              users[(((i - 1) \div R) % U) + 1],
              repos[((i - 1) % R) + 1]>>]

Found(c) == Probe(net, c[1], c[2], c[3]) = "ok"

\* the combinations found among the first n, in order, as search yields them
FoundAmong(combos, n) ==
    LET found == SelectSeq(SubSeq(combos, 1, n), Found)
    IN  [j \in 1..Len(found) |-> <<found[j][3], found[j][2], found[j][1]>>]

\* C7: with resolvable sites, the probes issued so far are the first
\* combinations in site-major, then user, then repo order, one each; the
\* candidates yielded are those among them whose probe succeeded, in that
\* order, each yielded right after its probe; a probe failing with HTTPError
\* or URLError never ends the search, which ends only when every combination
\* has been probed.
C7_ProbesInSiteMajorOrder ==
    LET keys == GivenKeys
        combos == Combos(keys, GivenUsers, GivenRepos)
        n == Len(gen.probes)
    IN  (\A s \in 1..Len(keys) : keys[s] # NoSite)
        => /\ gen.status # "raised"
           /\ n <= Len(combos)
           /\ gen.probes = SubSeq(combos, 1, n)
           /\ gen.yielded = FoundAmong(combos, n)
           /\ gen.status = "created" => n = 0
           /\ gen.status = "suspended" => Found(combos[n])
           /\ gen.status = "exhausted" => n = Len(combos)

C7_Witness ==
    /\ gen.status = "exhausted"
    /\ gen.sites = ListArg(<<Github, BitbucketX>>)
    /\ Len(gen.probes) = 8
    /\ Len(gen.yielded) = 2
    /\ net.down = Bitbucket
    /\ \E i \in 1..4 : Probe(net, Github, gen.probes[i][2], gen.probes[i][3]) = "HTTPError"

HasUnknownSite == \E s \in 1..Len(GivenSites) : KeyOf[GivenSites[s]] = NoSite

\* C8 as stated: with an unresolvable site anywhere in the list, the search,
\* once started, has failed with KeyError, has issued no probe and has
\* yielded nothing.
C8_UnknownSiteFailsBeforeAnyProbe ==
    (HasUnknownSite /\ gen.status # "created")
    => /\ gen.status = "raised"
       /\ gen.exc = "KeyError"
       /\ gen.probes = <<>>
       /\ gen.yielded = <<>>

\* C8 amended: the search fails with KeyError when the iteration reaches the
\* unresolvable site: no probe is ever issued for that site or a site after
\* it, the failure comes after exactly the probes (and yields) of the sites
\* listed before it, and the search never ends normally, so the site is not
\* skipped.
C8_UnknownSiteFailsWhenReached ==
    LET keys == GivenKeys
        n == Len(gen.probes)
    IN  (\E s \in 1..Len(keys) : keys[s] = NoSite)
        => LET first == CHOOSE s \in 1..Len(keys) :
                            /\ keys[s] = NoSite
                            /\ \A t \in 1..(s - 1) : keys[t] # NoSite
               before == Combos(SubSeq(keys, 1, first - 1), GivenUsers, GivenRepos)
           IN  /\ gen.status # "exhausted"
               /\ n <= Len(before)
               /\ gen.probes = SubSeq(before, 1, n)
               /\ gen.yielded = FoundAmong(before, n)
               /\ gen.status = "raised"
                     => gen.exc = "KeyError" /\ n = Len(before)

C8_Witness ==
    /\ gen.status = "raised"
    /\ gen.exc = "KeyError"
    /\ gen.sites = ListArg(<<Github, Gitlab>>)
    /\ Len(gen.probes) = 4
    /\ Len(gen.yielded) >= 1

----------------------------------------------------------------------------
(* main.                                                                   *)

NotDone ==
    [done |-> FALSE, code |-> -1, out |-> "", path |-> <<>>, exc |-> "",
     probes |-> <<>>, clones |-> <<>>, cloneExc |-> ""]

\* what a run of main leaves: the status it returns (-1: an exception left
\* main instead), what it printed, the exception, the probes search issued,
\* the candidates clone was called on and how the call of clone ended
Ran(code, out, path, exc, probes, clones, cloneExc, f) ==
    [done |-> TRUE, code |-> code, out |-> out, path |-> path, exc |-> exc,
     probes |-> probes, clones |-> clones, cloneExc |-> cloneExc, fs |-> f]

\* the generator main iterates: search(repo, user, site) with user and site
\* None when the arguments do not give them
MainSearch(args) ==
    NewGen(StrArg(args[1]),
           IF Len(args) >= 2 THEN StrArg(args[2]) ELSE NoneArg,
           IF Len(args) >= 3 THEN StrArg(args[3]) ELSE NoneArg)

\* the body of main's loop with a failing clone reported as "not found"
ClonedFoldsFailure(g, m, c) ==
    IF c.exc # ""
    THEN Ran(1, "notfound", <<>>, "", g.probes, <<m>>, c.exc, c.fs)
    ELSE Ran(0, "cloned", c.ret, "", g.probes, <<m>>, "", c.fs)

\* the body of main's loop, for the candidate m, after clone ended as c: the
\* path is printed and main returns 0, or clone's exception leaves main
Cloned(g, m, c) ==
    IF c.exc # ""
    THEN Ran(-1, "", <<>>, c.exc, g.probes, <<m>>, c.exc, c.fs)
    ELSE Ran(0, "cloned", c.ret, "", g.probes, <<m>>, "", c.fs)

\* the candidate the generator is suspended at
LastYielded(g) == g.yielded[Len(g.yielded)]

\* main's for loop over the generator, which next() left as g: an exception
\* of search leaves main; a generator that ended without a yield takes the
\* loop's else clause; the first candidate yielded is cloned into the working
\* directory
Searched(g, f, t, names, failAt) ==
    IF g.status = "raised"
    THEN Ran(-1, "", <<>>, g.exc, g.probes, <<>>, "", f)
    ELSE IF g.status = "exhausted"
         THEN Ran(1, "notfound", <<>>, "", g.probes, <<>>, "", f)
    ELSE Cloned(g, LastYielded(g),
                CloneResult(f, LastYielded(g)[1], LastYielded(g)[2],
                            LastYielded(g)[3], "none", t, names, failAt))

\* main(): usage for no argument or more than three; else the first
\* candidate search yields is cloned and main returns 0; when search yields
\* none main reports that and returns 1
MainResult(args, n, e, f, t, names, failAt) ==
    IF Len(args) = 0 \/ Len(args) > 3
    THEN Ran(1, "usage", <<>>, "", <<>>, <<>>, "", f)
    ELSE Searched(SearchNextResult(MainSearch(args), n, e), f, t, names, failAt)

\* argument lists of every length up to MaxArgs
ArgLists ==
    {<<>>} \cup {<<RepoName>>}
    \cup {<<RepoName, u>> : u \in Users}
    \cup {<<RepoName, u, s>> : u \in Users, s \in SearchSites}
    \cup UNION { {<<RepoName, u, s>> \o [i \in 1..k |-> "more"] :
                    u \in Users, s \in SearchSites} : k \in 1..(MaxArgs - 3) }

\* the environments of main's runs: getpass.getuser() answers from USER,
\* answers from the password database, or raises
MainEnvs ==
    {QuietEnv,
     [QuietEnv EXCEPT !.USER = Unset, !.pw = Al],
     [QuietEnv EXCEPT !.USER = Unset, !.pw = Fails]}

\* the working directories of main's runs
MainTrees ==
    {EmptyTree,
     [EmptyTree EXCEPT ![<<RepoName>>] = "dir"],
     [EmptyTree EXCEPT ![<<RepoName>>] = "old"],
     [EmptyTree EXCEPT ![<<ZipName>>] = "old"]}

\* the archives the sites serve to main's clone
MainArchives == {<<RootDir, RootFile>>, <<RootFile>>, <<RepoDir>>, <<>>}

InitMain ==
    /\ argv \in ArgLists
    /\ net \in Worlds(Users, {RepoName})
    /\ env \in MainEnvs
    /\ fs \in MainTrees
    /\ pre = fs
    /\ mainRes = NotDone
    /\ gen = NoGen
    /\ usersOut = NoUsers
    /\ siteArg = NoSite
    /\ siteRes = NoRes
    /\ call = NoCall
    /\ res = NoOutcome

Main ==
    /\ ~mainRes.done
    /\ \E t \in Transports, names \in MainArchives :
        \E failAt \in 0..Len(names) :
          /\ Served("none", t, names, failAt)
          /\ LET r == MainResult(argv, net, env, fs, t, names, failAt)
             IN  /\ mainRes' = [k \in DOMAIN NotDone |-> r[k]]
                 /\ fs' = r.fs
                 /\ pre' = fs
    /\ UNCHANGED <<siteArg, siteRes, call, res, env, usersOut, net, gen, argv>>

NextMain == Main

SpecMain == InitMain /\ [][NextMain]_vars

\* C10: main clones at most once, and then the first candidate, in
\* site-major order, whose probe succeeded, having probed no candidate after
\* it; it returns 0, having reported the path clone returned, exactly when
\* that clone returned; it returns 1 with "not found" exactly when search
\* ended having yielded nothing; with no argument or more than three it
\* returns 1 with the usage text, having probed nothing and touched no file;
\* and a failure of clone (or of search) leaves main as that exception, with
\* neither report printed and no second candidate tried.
C10_MainClonesFirstCandidateOnce ==
    mainRes.done
    => LET usage == Len(argv) = 0 \/ Len(argv) > 3
           defaults == IterDefaultUsers(env)
           users == IF Len(argv) >= 2 THEN <<argv[2]>> ELSE defaults.users
           sites == IF Len(argv) >= 3 THEN <<argv[3]>> ELSE TemplateKeys
           keys == [s \in 1..Len(sites) |-> KeyOf[sites[s]]]
           combos == Combos(keys, users, <<argv[1]>>)
           hits == {i \in 1..Len(combos) : Found(combos[i])}
           searchFails ==
               \/ Len(argv) = 1 /\ defaults.exc # ""
               \/ \E s \in 1..Len(keys) : keys[s] = NoSite
       IN  /\ Len(mainRes.clones) <= 1
           /\ usage => /\ mainRes.code = 1 /\ mainRes.out = "usage"
                       /\ mainRes.probes = <<>> /\ mainRes.clones = <<>>
                       /\ mainRes.exc = "" /\ fs = pre
           /\ (~usage /\ searchFails)
                 => /\ mainRes.code = -1 /\ mainRes.out = ""
                    /\ mainRes.exc = "KeyError"
                    /\ mainRes.probes = <<>> /\ mainRes.clones = <<>>
                    /\ fs = pre
           /\ (~usage /\ ~searchFails /\ hits = {})
                 => /\ mainRes.code = 1 /\ mainRes.out = "notfound"
                    /\ mainRes.probes = combos /\ mainRes.clones = <<>>
                    /\ mainRes.exc = "" /\ fs = pre
           /\ (~usage /\ ~searchFails /\ hits # {})
                 => LET i == CHOOSE h \in hits : \A j \in hits : h <= j
                        c == combos[i]
                    IN  /\ mainRes.probes = SubSeq(combos, 1, i)
                        /\ mainRes.clones = <<<<c[3], c[2], c[1]>>>>
                        /\ mainRes.out # "notfound"
                        /\ mainRes.cloneExc = ""
                              => /\ mainRes.code = 0 /\ mainRes.out = "cloned"
                                 /\ mainRes.path = <<c[3]>>
                                 /\ IsDir(fs, mainRes.path)
                                 /\ mainRes.exc = ""
                        /\ mainRes.cloneExc # ""
                              => /\ mainRes.code = -1 /\ mainRes.out = ""
                                 /\ mainRes.exc = mainRes.cloneExc

C10_Witness ==
    /\ mainRes.done
    /\ Len(argv) = 1
    /\ Len(mainRes.probes) = 3
    /\ mainRes.clones = <<<<RepoName, Bo, Github>>>>
    /\ mainRes.code = 0
    /\ mainRes.out = "cloned"
    /\ fs[<<RepoName, ChildName>>] = "ent"

====
